---- MODULE Spec2Model ----
(***************************************************************************)
(* The emoji-explainer web service: a FastAPI router (server.py) over      *)
(* thirteen service functions that read and write three tables (User,      *)
(* EmojiRequest, EmojiExplanation) and call one external interpretation    *)
(* service.  A handler is a coroutine: it runs atomically up to each       *)
(* `await` of a data-store operation or of the outbound HTTP call, so a    *)
(* handler with k awaits is k steps, and the steps of requests in flight   *)
(* interleave.  The step that ends a request also builds its response.     *)
(***************************************************************************)
EXTENDS Integers, Sequences, FiniteSets, TLC

(* ------------------------------ bounds --------------------------------- *)
\* ids the User autoincrement may hand out
MaxUsers == 3
\* requests that may be suspended at an await at the same time
MaxInflight == 2
\* requests that arrive in one behaviour of the whole service
MaxRequests == 2
\* requests that arrive in one behaviour of the emoji routes alone
MaxEmojiRequests == 4
\* the most EmojiRequest rows a store of the recent-emojis specification holds
MaxRecentRows == 12

(* --------------------------- program constants ------------------------- *)
\* fetchRecentEmojis: find_many(..., take=10)
TakeLimit == 10
\* every except-branch of server.py: Response(..., status_code=500)
StatusError == 500
\* FastAPI's status of a handler that returns its response model
StatusOk == 200

(* ------------------------------ value sets ----------------------------- *)
Roles == {"ADMIN", "USER"}
Emails == {"a", "b", "c"}
Plains == {"p1", "p2"}
Salts == {"s1", "s2"}
Emojis == {"e1", "e2"}
Explanations == {"x1", "x2"}
UserIds == 1..MaxUsers
\* Python's None, as an argument and as a field of a response
None == "<None>"

\* A string typed by a client is the one-element tuple of its text; a bcrypt
\* hash is the text "$2b$", the salt and the digest of the password under it.
Plain(p) == <<p>>
\* bcrypt.hashpw(password.encode("utf-8"), salt).decode("utf-8")
HashPw(p, salt) == <<"$2b$", salt, p>>

\* decimal text of the ids that appear in paths, and int() of a path segment
StrOf == [i \in 0..4 |-> CASE i = 0 -> "0" [] i = 1 -> "1" [] i = 2 -> "2"
                           [] i = 3 -> "3" [] OTHER -> "4"]
IsNumeric(s) == \E i \in DOMAIN StrOf : StrOf[i] = s
IntOf(s) == CHOOSE i \in DOMAIN StrOf : StrOf[i] = s
\* the texts a client may put in the {emoji_id} segment
IdTexts == {StrOf[i] : i \in 0..2} \cup {"abc"}

(* ------------------------------- state --------------------------------- *)
VARIABLES
    users,              \* User table: id -> [email, password, role]
    nextUserId,         \* User.id autoincrement
    emojiRequests,      \* EmojiRequest table: set of rows
    emojiExplanations,  \* EmojiExplanation table: set of rows
    inflight,           \* requests suspended at an await, by slot
    last,               \* the request that ended most recently, with its response
    budget,             \* requests still to arrive
    submitted,          \* submitEmoji requests received
    outbound            \* POSTs sent to the interpretation service

vars == <<users, nextUserId, emojiRequests, emojiExplanations, inflight, last,
          budget, submitted, outbound>>

store == <<users, nextUserId, emojiRequests, emojiExplanations>>

(* ------------------------------ the store ------------------------------ *)
NoUser == [id |-> 0, email |-> "", password |-> <<>>, role |-> "NONE"]
UserRow(id) == [id |-> id, email |-> users[id].email,
                password |-> users[id].password, role |-> users[id].role]
\* User.prisma().find_unique(where={"id": id})
FindUser(id) == IF id \in DOMAIN users THEN UserRow(id) ELSE NoUser
\* User.prisma().find_unique(where={"email": email}); email is a unique column
FindUserByEmail(email) ==
    LET S == {i \in DOMAIN users : users[i].email = email}
    IN  IF S = {} THEN NoUser ELSE UserRow(CHOOSE i \in S : TRUE)
\* the unique constraint on User.email, as create/update see it
EmailTaken(email, except) ==
    \E i \in DOMAIN users : i # except /\ users[i].email = email

NoExplanation == [id |-> 0, emoji |-> "", explanation |-> ""]
\* EmojiExplanation.prisma().find_unique(where={"id": id})
FindExplanation(id) ==
    LET S == {r \in emojiExplanations : r.id = id}
    IN  IF S = {} THEN NoExplanation ELSE CHOOSE r \in S : TRUE
\* EmojiExplanation.prisma().find_unique(where={"emoji": emoji})
FindExplanationByEmoji(emoji) ==
    LET S == {r \in emojiExplanations : r.emoji = emoji}
    IN  IF S = {} THEN NoExplanation ELSE CHOOSE r \in S : TRUE
\* EmojiExplanation.id autoincrement: rows are never deleted
NextExplanationId == Cardinality(emojiExplanations) + 1

(* ------------------------------ the router ----------------------------- *)
\* The decorators of server.py in registration order; "{}" is a path parameter.
Routes == <<
    [method |-> "GET",    pattern |-> <<"emojis", "recent">>,            handler |-> "api_get_fetchRecentEmojis"],
    [method |-> "GET",    pattern |-> <<"emoji", "explanation", "{}">>,  handler |-> "api_get_fetchEmojiExplanation"],
    [method |-> "GET",    pattern |-> <<"users", "{}">>,                 handler |-> "api_get_getUser"],
    [method |-> "POST",   pattern |-> <<"emoji", "interpret">>,          handler |-> "api_post_submitEmoji"],
    [method |-> "GET",    pattern |-> <<"system", "status">>,            handler |-> "api_get_systemHealthCheck"],
    [method |-> "DELETE", pattern |-> <<"admin", "user-role", "{}">>,    handler |-> "api_delete_deleteUserRole"],
    [method |-> "GET",    pattern |-> <<"emoji", "explanation", "{}">>,  handler |-> "api_get_fetchExplanation"],
    [method |-> "POST",   pattern |-> <<"admin", "user-role">>,          handler |-> "api_post_addUserRole"],
    [method |-> "DELETE", pattern |-> <<"users", "{}">>,                 handler |-> "api_delete_deleteUser"],
    [method |-> "PUT",    pattern |-> <<"users", "{}">>,                 handler |-> "api_put_updateUser"],
    [method |-> "POST",   pattern |-> <<"users", "authenticate">>,       handler |-> "api_post_authenticateUser"],
    [method |-> "GET",    pattern |-> <<"health">>,                      handler |-> "api_get_getApiHealth"],
    [method |-> "POST",   pattern |-> <<"users">>,                       handler |-> "api_post_createUser"] >>

Handlers == {Routes[i].handler : i \in DOMAIN Routes}

\* a path matches a pattern segment by segment; a parameter matches any segment
PathMatches(pattern, path) ==
    /\ Len(pattern) = Len(path)
    /\ \A k \in 1..Len(pattern) : pattern[k] = "{}" \/ pattern[k] = path[k]
\* the registered routes a request matches
Matching(method, path) ==
    {i \in DOMAIN Routes :
        Routes[i].method = method /\ PathMatches(Routes[i].pattern, path)}
\* the router runs the first registered route that matches
Dispatch(method, path) ==
    LET M == Matching(method, path)
    IN  IF M = {} THEN "none"
        ELSE Routes[CHOOSE i \in M : \A j \in M : i <= j].handler

(* --------------------------- responses --------------------------------- *)
\* what a service function did: returned a value or raised
Returned(value) == [raised |-> FALSE, exc |-> "", value |-> value]
Raised(exc, msg) == [raised |-> TRUE, exc |-> exc, value |-> [error |-> msg]]

\* jsonable_encoder(res) of the except-branches: a dict stays a dict
jsonable_encoder(res) == [kind |-> "dict", value |-> res]

\* Response(content=..., status_code=..., media_type="application/json"): the
\* constructor renders its content, bytes as they are and a str by encode(); a
\* dict has no encode(), so the constructor raises AttributeError, the exception
\* leaves the handler and the server answers its own bare 500.
Response(content, status_code) ==
    IF content.kind \in {"bytes", "str"}
    THEN [status |-> status_code, body |-> content.value, escaped |-> FALSE]
    ELSE [status |-> StatusError, body |-> [text |-> "Internal Server Error"],
          escaped |-> TRUE]

\* every route of server.py: try: return res
\* except Exception as e: return Response(jsonable_encoder({"error": str(e)}), 500)
ApiResponse(out) ==
    IF out.raised THEN Response(jsonable_encoder(out.value), StatusError)
    ELSE [status |-> StatusOk, body |-> out.value, escaped |-> FALSE]

(* --------------------------- requests ---------------------------------- *)
Idle == [op |-> "idle"]
Slots == 1..MaxInflight
\* who sends a request: a user id, or 0 for a caller who identifies as nobody.
\* No route and no service function reads it; callerRole is the sender's role
\* when the request arrives.
Callers == 0..MaxUsers

\* a request as the router hands it to its handler; the counters record what the
\* handler has issued so far, loc the handler's local variables
NewRequest(op, method, path, args, caller, loc) ==
    [op |-> op, method |-> method, path |-> path,
     handler |-> Dispatch(method, path), args |-> args, caller |-> caller,
     callerRole |-> IF caller \in DOMAIN users THEN users[caller].role ELSE "NONE",
     pc |-> "start", loc |-> loc, ndb |-> 0, nhttp |-> 0, nwrites |-> 0]

Ended(r, out) ==
    [op |-> r.op, method |-> r.method, path |-> r.path, handler |-> r.handler,
     args |-> r.args, caller |-> r.caller, callerRole |-> r.callerRole,
     loc |-> r.loc,
     ndb |-> r.ndb, nhttp |-> r.nhttp, nwrites |-> r.nwrites,
     raised |-> out.raised, exc |-> out.exc,
     status |-> ApiResponse(out).status, body |-> ApiResponse(out).body,
     escaped |-> ApiResponse(out).escaped]

\* the handler of slot s ends with outcome out
Finish(s, r, out) ==
    /\ last' = Ended(r, out)
    /\ inflight' = [inflight EXCEPT ![s] = Idle]
\* the handler of slot s is suspended at its next await
Suspend(s, r) ==
    /\ inflight' = [inflight EXCEPT ![s] = r]
    /\ UNCHANGED last
\* a handler with a single await ends in the step that starts it
FinishNow(r, out) ==
    /\ last' = Ended(r, out)
    /\ UNCHANGED inflight

\* the router accepts one more request
Accept ==
    /\ budget > 0
    /\ budget' = budget - 1

DbError == Raised("PrismaError", "data store error")

(* --------------------------- deleteUser -------------------------------- *)
DeleteUserArgs == [userId : UserIds, approverId : UserIds]

\* mutant of DeleteUserFindApprover: the approver only has to exist
DeleteUserFindApprover_AnyRole(s, a, ok) ==
    /\ Accept
    /\ inflight[s] = Idle
    /\ LET r0 == NewRequest("deleteUser", "DELETE", <<"users", StrOf[a.userId]>>,
                            a, 0, [approver |-> NoUser, user |-> NoUser,
                                   deleted |-> 0])
           approver == FindUser(a.approverId)
           r1 == [r0 EXCEPT !.ndb = @ + 1,
                            !.loc.approver = IF ok THEN approver ELSE NoUser]
       IN  /\ r0.handler = "api_delete_deleteUser"
           /\ IF ~ok THEN Finish(s, r1, DbError)
              ELSE IF approver.id = 0
              THEN Finish(s, r1, Returned([status |-> "error",
                     message |-> "Approver is not authorized or does not exist."]))
              ELSE Suspend(s, [r1 EXCEPT !.pc = "find_user"])
    /\ UNCHANGED <<store, submitted, outbound>>

\* line 34-38: look the approver up; refuse unless it is an ADMIN
DeleteUserFindApprover(s, a, ok) ==
    /\ Accept
    /\ inflight[s] = Idle
    /\ LET r0 == NewRequest("deleteUser", "DELETE", <<"users", StrOf[a.userId]>>,
                            a, 0, [approver |-> NoUser, user |-> NoUser,
                                   deleted |-> 0])
           approver == FindUser(a.approverId)
           r1 == [r0 EXCEPT !.ndb = @ + 1,
                            !.loc.approver = IF ok THEN approver ELSE NoUser]
       IN  /\ r0.handler = "api_delete_deleteUser"
           /\ IF ~ok THEN Finish(s, r1, DbError)
              ELSE IF approver.id = 0 \/ approver.role # "ADMIN"
              THEN Finish(s, r1, Returned([status |-> "error",
                     message |-> "Approver is not authorized or does not exist."]))
              ELSE Suspend(s, [r1 EXCEPT !.pc = "find_user"])
    /\ UNCHANGED <<store, submitted, outbound>>

\* mutant of DeleteUserFindUser: the target's role is not looked at
DeleteUserFindUser_AnyTarget(s, ok) ==
    /\ inflight[s].op = "deleteUser"
    /\ inflight[s].pc = "find_user"
    /\ LET r0 == inflight[s]
           user == FindUser(r0.args.userId)
           r1 == [r0 EXCEPT !.ndb = @ + 1,
                            !.loc.user = IF ok THEN user ELSE NoUser]
       IN  IF ~ok THEN Finish(s, r1, DbError)
           ELSE IF user.id = 0
           THEN Finish(s, r1, Returned([status |-> "error",
                                        message |-> "User does not exist."]))
           ELSE Suspend(s, [r1 EXCEPT !.pc = "delete_requests"])
    /\ UNCHANGED <<budget, store, submitted, outbound>>

\* line 39-45: look the target up; refuse a missing user and an ADMIN
DeleteUserFindUser(s, ok) ==
    /\ inflight[s].op = "deleteUser"
    /\ inflight[s].pc = "find_user"
    /\ LET r0 == inflight[s]
           user == FindUser(r0.args.userId)
           r1 == [r0 EXCEPT !.ndb = @ + 1,
                            !.loc.user = IF ok THEN user ELSE NoUser]
       IN  IF ~ok THEN Finish(s, r1, DbError)
           ELSE IF user.id = 0
           THEN Finish(s, r1, Returned([status |-> "error",
                                        message |-> "User does not exist."]))
           ELSE IF user.role = "ADMIN"
           THEN Finish(s, r1, Returned([status |-> "error",
                                        message |-> "Cannot delete an admin user."]))
           ELSE Suspend(s, [r1 EXCEPT !.pc = "delete_requests"])
    /\ UNCHANGED <<budget, store, submitted, outbound>>

\* line 46: EmojiRequest.prisma().delete_many(where={"userId": userId}), which
\* answers the number of rows it removed
DeleteUserDeleteRequests(s, ok) ==
    /\ inflight[s].op = "deleteUser"
    /\ inflight[s].pc = "delete_requests"
    /\ LET r0 == inflight[s]
           r1 == [r0 EXCEPT !.ndb = @ + 1, !.nwrites = @ + 1]
           mine == {q \in emojiRequests : q.userId = r0.args.userId}
       IN  IF ~ok
           THEN /\ Finish(s, r1, DbError)
                /\ UNCHANGED emojiRequests
           ELSE /\ emojiRequests' = emojiRequests \ mine
                /\ Suspend(s, [r1 EXCEPT !.pc = "delete_user",
                                         !.loc.deleted = Cardinality(mine)])
    /\ UNCHANGED <<budget, users, nextUserId, emojiExplanations, submitted, outbound>>

\* mutant of DeleteUserDeleteUser: the row is looked up once more before the
\* delete
DeleteUserDeleteUser_Recheck(s, ok) ==
    /\ inflight[s].op = "deleteUser"
    /\ inflight[s].pc = "delete_user"
    /\ LET r0 == inflight[s]
           r1 == [r0 EXCEPT !.ndb = @ + 2, !.nwrites = @ + 1]
       IN  IF ~ok
           THEN /\ Finish(s, r1, DbError)
                /\ UNCHANGED users
           ELSE /\ users' = [i \in DOMAIN users \ {r0.args.userId} |-> users[i]]
                /\ Finish(s, r1, Returned([status |-> "success",
                                   message |-> "User successfully deleted."]))
    /\ UNCHANGED <<budget, nextUserId, emojiRequests, emojiExplanations, submitted, outbound>>

\* line 47-48: User.prisma().delete(where={"id": userId}); a row that is
\* already gone is no error
DeleteUserDeleteUser(s, ok) ==
    /\ inflight[s].op = "deleteUser"
    /\ inflight[s].pc = "delete_user"
    /\ LET r0 == inflight[s]
           r1 == [r0 EXCEPT !.ndb = @ + 1, !.nwrites = @ + 1]
       IN  IF ~ok
           THEN /\ Finish(s, r1, DbError)
                /\ UNCHANGED users
           ELSE /\ users' = [i \in DOMAIN users \ {r0.args.userId} |-> users[i]]
                /\ Finish(s, r1, Returned([status |-> "success",
                                   message |-> "User successfully deleted."]))
    /\ UNCHANGED <<budget, nextUserId, emojiRequests, emojiExplanations, submitted, outbound>>

(* --------------------------- submitEmoji ------------------------------- *)
\* what the interpretation service may answer to one POST
ServiceAnswers ==
    {[kind |-> "ok", explanation |-> x] : x \in Explanations}
    \cup {[kind |-> k, explanation |-> ""] : k \in {"http_error", "missing", "empty"}}

\* call_emoji_interpretation_service, line 50-59: one POST; raise_for_status,
\* then a missing or empty "explanation" is a ValueError
call_emoji_interpretation_service(answer) ==
    IF answer.kind = "http_error"
    THEN Raised("HTTPStatusError", "interpretation service error")
    ELSE IF answer.kind = "ok" /\ answer.explanation # ""
    THEN Returned(answer.explanation)
    ELSE Raised("ValueError", "No interpretation was returned from the service.")

\* mutant of SubmitEmojiCall: the stored explanation is looked up first and
\* returned without a call
SubmitEmojiCall_CheckFirst(s, emoji, answer) ==
    /\ Accept
    /\ inflight[s] = Idle
    /\ submitted' = submitted + 1
    /\ LET r0 == NewRequest("submitEmoji", "POST", <<"emoji", "interpret">>,
                            [emoji |-> emoji], 0,
                            [answer |-> answer.kind, interpretation_result |-> "",
                             existing |-> FindExplanationByEmoji(emoji)])
           res == call_emoji_interpretation_service(answer)
           r1 == [r0 EXCEPT !.nhttp = @ + 1]
       IN  /\ r0.handler = "api_post_submitEmoji"
           /\ IF r0.loc.existing.id # 0
              THEN /\ Finish(s, [r0 EXCEPT !.ndb = @ + 1, !.loc.answer = "ok"],
                             Returned([emoji |-> emoji,
                                       explanation |-> r0.loc.existing.explanation]))
                   /\ UNCHANGED outbound
              ELSE /\ outbound' = outbound + 1
                   /\ IF res.raised THEN Finish(s, r1, res)
                      ELSE Suspend(s, [r1 EXCEPT !.pc = "lookup",
                                         !.loc.interpretation_result = res.value])
    /\ UNCHANGED store

\* mutant of SubmitEmojiCall: a failed call is tried once more
SubmitEmojiCall_Retry(s, emoji, answer) ==
    /\ Accept
    /\ inflight[s] = Idle
    /\ submitted' = submitted + 1
    /\ LET r0 == NewRequest("submitEmoji", "POST", <<"emoji", "interpret">>,
                            [emoji |-> emoji], 0,
                            [answer |-> answer.kind, interpretation_result |-> "",
                             existing |-> NoExplanation])
           res == call_emoji_interpretation_service(answer)
       IN  /\ r0.handler = "api_post_submitEmoji"
           /\ IF res.raised
              THEN /\ outbound' = outbound + 2
                   /\ Finish(s, [r0 EXCEPT !.nhttp = @ + 2], res)
              ELSE /\ outbound' = outbound + 1
                   /\ Suspend(s, [r0 EXCEPT !.nhttp = @ + 1, !.pc = "lookup",
                                         !.loc.interpretation_result = res.value])
    /\ UNCHANGED store

\* line 26: the handler's first await is the outbound call
SubmitEmojiCall(s, emoji, answer) ==
    /\ Accept
    /\ inflight[s] = Idle
    /\ submitted' = submitted + 1
    /\ outbound' = outbound + 1
    /\ LET r0 == NewRequest("submitEmoji", "POST", <<"emoji", "interpret">>,
                            [emoji |-> emoji], 0,
                            [answer |-> answer.kind, interpretation_result |-> "",
                             existing |-> NoExplanation])
           res == call_emoji_interpretation_service(answer)
           r1 == [r0 EXCEPT !.nhttp = @ + 1]
       IN  /\ r0.handler = "api_post_submitEmoji"
           /\ IF res.raised THEN Finish(s, r1, res)
              ELSE Suspend(s, [r1 EXCEPT !.pc = "lookup",
                                         !.loc.interpretation_result = res.value])
    /\ UNCHANGED store

\* line 27-31, 37: look the stored explanation up; with one, answer at once
SubmitEmojiLookup(s, ok) ==
    /\ inflight[s].op = "submitEmoji"
    /\ inflight[s].pc = "lookup"
    /\ LET r0 == inflight[s]
           existing == FindExplanationByEmoji(r0.args.emoji)
           r1 == [r0 EXCEPT !.ndb = @ + 1,
                            !.loc.existing = IF ok THEN existing ELSE NoExplanation]
       IN  IF ~ok THEN Finish(s, r1, DbError)
           ELSE IF existing.id # 0
           THEN Finish(s, r1, Returned([emoji |-> r0.args.emoji,
                          explanation |-> r0.loc.interpretation_result]))
           ELSE Suspend(s, [r1 EXCEPT !.pc = "create"])
    /\ UNCHANGED <<budget, store, submitted, outbound>>

\* line 32-34, 37: create the row; emoji is a unique column, so a row another
\* request created since the lookup makes create fail
SubmitEmojiCreate(s, ok) ==
    /\ inflight[s].op = "submitEmoji"
    /\ inflight[s].pc = "create"
    /\ LET r0 == inflight[s]
           r1 == [r0 EXCEPT !.ndb = @ + 1, !.nwrites = @ + 1]
       IN  IF ~ok
           THEN /\ Finish(s, r1, DbError)
                /\ UNCHANGED emojiExplanations
           ELSE IF FindExplanationByEmoji(r0.args.emoji).id # 0
           THEN /\ Finish(s, r1, Raised("UniqueViolationError",
                                        "Unique constraint failed on emoji"))
                /\ UNCHANGED emojiExplanations
           ELSE /\ emojiExplanations' = emojiExplanations \cup
                       {[id |-> NextExplanationId, emoji |-> r0.args.emoji,
                         explanation |-> r0.loc.interpretation_result]}
                /\ Finish(s, r1, Returned([emoji |-> r0.args.emoji,
                               explanation |-> r0.loc.interpretation_result]))
    /\ UNCHANGED <<budget, users, nextUserId, emojiRequests, submitted, outbound>>

(* --------------------------- addUserRole ------------------------------- *)
AddUserRoleArgs == [user_id : UserIds, new_role : Roles]

\* line 37-41: the lookup is outside the try
AddUserRoleFind(s, a, caller, ok) ==
    /\ Accept
    /\ inflight[s] = Idle
    /\ LET r0 == NewRequest("addUserRole", "POST", <<"admin", "user-role">>,
                            a, caller, [user |-> NoUser])
           user == FindUser(a.user_id)
           r1 == [r0 EXCEPT !.ndb = @ + 1,
                            !.loc.user = IF ok THEN user ELSE NoUser]
       IN  /\ r0.handler = "api_post_addUserRole"
           /\ IF ~ok THEN Finish(s, r1, DbError)
              ELSE IF user.id = 0
              THEN Finish(s, r1, Returned([success |-> FALSE,
                                           message |-> "No user found with ID"]))
              ELSE Suspend(s, [r1 EXCEPT !.pc = "update"])
    /\ UNCHANGED <<store, submitted, outbound>>

\* User.prisma().update(where={"id": id}, data={"role": role}): a row that is
\* gone is no error, update then returns None
UpdateRole(id, role) ==
    [i \in DOMAIN users |-> IF i = id THEN [users[i] EXCEPT !.role = role]
                            ELSE users[i]]

\* mutant of AddUserRoleUpdate: a failure of the update is raised
AddUserRoleUpdate_Raise(s, ok) ==
    /\ inflight[s].op = "addUserRole"
    /\ inflight[s].pc = "update"
    /\ LET r0 == inflight[s]
           r1 == [r0 EXCEPT !.ndb = @ + 1, !.nwrites = @ + 1]
       IN  IF ~ok
           THEN /\ Finish(s, r1, DbError)
                /\ UNCHANGED users
           ELSE /\ users' = UpdateRole(r0.args.user_id, r0.args.new_role)
                /\ Finish(s, r1, Returned([success |-> TRUE,
                                   message |-> "User role updated successfully."]))
    /\ UNCHANGED <<budget, nextUserId, emojiRequests, emojiExplanations, submitted, outbound>>

\* line 42-52: the update, whose failure is returned and not raised
AddUserRoleUpdate(s, ok) ==
    /\ inflight[s].op = "addUserRole"
    /\ inflight[s].pc = "update"
    /\ LET r0 == inflight[s]
           r1 == [r0 EXCEPT !.ndb = @ + 1, !.nwrites = @ + 1]
       IN  IF ~ok
           THEN /\ Finish(s, r1, Returned([success |-> FALSE,
                                   message |-> "Failed to update user role"]))
                /\ UNCHANGED users
           ELSE /\ users' = UpdateRole(r0.args.user_id, r0.args.new_role)
                /\ Finish(s, r1, Returned([success |-> TRUE,
                                   message |-> "User role updated successfully."]))
    /\ UNCHANGED <<budget, nextUserId, emojiRequests, emojiExplanations, submitted, outbound>>

(* --------------------------- deleteUserRole ---------------------------- *)
\* line 27-30, 37-40: the lookup, inside the try
DeleteUserRoleFind(s, user_id, caller, ok) ==
    /\ Accept
    /\ inflight[s] = Idle
    /\ LET r0 == NewRequest("deleteUserRole", "DELETE",
                            <<"admin", "user-role", StrOf[user_id]>>,
                            [user_id |-> user_id], caller, [user |-> NoUser])
           user == FindUser(user_id)
           r1 == [r0 EXCEPT !.ndb = @ + 1,
                            !.loc.user = IF ok THEN user ELSE NoUser]
       IN  /\ r0.handler = "api_delete_deleteUserRole"
           /\ IF ~ok
              THEN Finish(s, r1, Returned([success |-> FALSE,
                                   message |-> "Failed to update user role"]))
              ELSE IF user.id = 0
              THEN Finish(s, r1, Returned([success |-> FALSE,
                                           message |-> "User not found."]))
              ELSE Suspend(s, [r1 EXCEPT !.pc = "update"])
    /\ UNCHANGED <<store, submitted, outbound>>

\* mutant of DeleteUserRoleUpdate: an ADMIN row is left as it is
DeleteUserRoleUpdate_KeepAdmin(s, ok) ==
    /\ inflight[s].op = "deleteUserRole"
    /\ inflight[s].pc = "update"
    /\ LET r0 == inflight[s]
           r1 == [r0 EXCEPT !.ndb = @ + 1, !.nwrites = @ + 1]
       IN  IF ~ok
           THEN /\ Finish(s, r1, Returned([success |-> FALSE,
                                   message |-> "Failed to update user role"]))
                /\ UNCHANGED users
           ELSE /\ users' = IF r0.loc.user.role = "ADMIN" THEN users
                            ELSE UpdateRole(r0.args.user_id, "USER")
                /\ Finish(s, r1, Returned([success |-> TRUE,
                                   message |-> "User role updated successfully."]))
    /\ UNCHANGED <<budget, nextUserId, emojiRequests, emojiExplanations, submitted, outbound>>

\* line 31-40: set the role to USER
DeleteUserRoleUpdate(s, ok) ==
    /\ inflight[s].op = "deleteUserRole"
    /\ inflight[s].pc = "update"
    /\ LET r0 == inflight[s]
           r1 == [r0 EXCEPT !.ndb = @ + 1, !.nwrites = @ + 1]
       IN  IF ~ok
           THEN /\ Finish(s, r1, Returned([success |-> FALSE,
                                   message |-> "Failed to update user role"]))
                /\ UNCHANGED users
           ELSE /\ users' = UpdateRole(r0.args.user_id, "USER")
                /\ Finish(s, r1, Returned([success |-> TRUE,
                                   message |-> "User role updated successfully."]))
    /\ UNCHANGED <<budget, nextUserId, emojiRequests, emojiExplanations, submitted, outbound>>

(* --------------------------- createUser -------------------------------- *)
CreateUserArgs == [username : Emails, password : {Plain(p) : p \in Plains},
                   role : Roles]

\* class Role(Enum) declares ADMIN: str and USER: str as annotations only, so
\* the enumeration has no members and Role[name] is a KeyError for every name
RoleByName(name) == Raised("KeyError", name)

\* line 43-51: hash the password, create the row, then build the response
\* from Role[user.role]
CreateUser(a, salt, ok) ==
    /\ Accept
    /\ nextUserId <= MaxUsers
    /\ LET r0 == NewRequest("createUser", "POST", <<"users">>, a, 0,
                            [hashed_password |-> HashPw(a.password[1], salt)])
           r1 == [r0 EXCEPT !.ndb = @ + 1, !.nwrites = @ + 1]
       IN  /\ r0.handler = "api_post_createUser"
           /\ IF ~ok
              THEN /\ FinishNow(r1, DbError)
                   /\ UNCHANGED <<users, nextUserId>>
              ELSE IF EmailTaken(a.username, 0)
              THEN /\ FinishNow(r1, Raised("UniqueViolationError",
                                           "Unique constraint failed on email"))
                   /\ UNCHANGED <<users, nextUserId>>
              ELSE /\ users' = [i \in DOMAIN users \cup {nextUserId} |->
                                  IF i = nextUserId
                                  THEN [email |-> a.username,
                                        password |-> r0.loc.hashed_password,
                                        role |-> a.role]
                                  ELSE users[i]]
                   /\ nextUserId' = nextUserId + 1
                   /\ FinishNow(r1, IF RoleByName(a.role).raised
                                     THEN RoleByName(a.role)
                                     ELSE Returned([id |-> nextUserId,
                                            username |-> a.username,
                                            role |-> RoleByName(a.role).value]))
    /\ UNCHANGED <<emojiRequests, emojiExplanations, inflight, submitted, outbound>>

(* --------------------------- authenticateUser -------------------------- *)
\* what a client may type as a password: a plain text, or the text of a hash
PasswordTexts == {Plain(p) : p \in Plains}
                 \cup {HashPw(p, salt) : p \in Plains, salt \in Salts}

\* line 35-39: the stored password is compared with the supplied one by ==
authenticateUser(user, password) ==
    IF user.id = 0 \/ ~(user.password = password)
    THEN Returned([jwt |-> <<>>, error |-> "Invalid username or password"])
    ELSE Returned([jwt |-> <<"example_token_for_", StrOf[user.id]>>,
                   error |-> None])

AuthenticateUser(username, password, ok) ==
    /\ Accept
    /\ LET user == FindUserByEmail(username)
           r0 == NewRequest("authenticateUser", "POST", <<"users", "authenticate">>,
                            [username |-> username, password |-> password], 0,
                            [user |-> IF ok THEN user ELSE NoUser])
           r1 == [r0 EXCEPT !.ndb = @ + 1]
       IN  /\ r0.handler = "api_post_authenticateUser"
           /\ FinishNow(r1, IF ok THEN authenticateUser(user, password) ELSE DbError)
    /\ UNCHANGED <<store, inflight, submitted, outbound>>

(* --------------------------- getUser ----------------------------------- *)
\* min(request.createdAt for request in user.requests), or datetime.now()
CreationDate(id) ==
    LET S == {q.createdAt : q \in {q \in emojiRequests : q.userId = id}}
    IN  IF S = {} THEN [now |-> TRUE, at |-> 0]
        ELSE [now |-> FALSE, at |-> CHOOSE t \in S : \A u \in S : t <= u]

\* line 37-50
getUser(user) ==
    IF user.id = 0 THEN Raised("ValueError", "User not found.")
    ELSE Returned([username |-> user.email, roles |-> <<user.role>>,
                   creationDate |-> CreationDate(user.id)])

GetUser(userId, ok) ==
    /\ Accept
    /\ LET user == FindUser(userId)
           r0 == NewRequest("getUser", "GET", <<"users", StrOf[userId]>>,
                            [userId |-> userId], 0,
                            [user |-> IF ok THEN user ELSE NoUser])
           r1 == [r0 EXCEPT !.ndb = @ + 1]
       IN  /\ r0.handler = "api_get_getUser"
           /\ FinishNow(r1, IF ok THEN getUser(user) ELSE DbError)
    /\ UNCHANGED <<store, inflight, submitted, outbound>>

(* --------------------------- updateUser -------------------------------- *)
UpdateUserArgs == [userId : UserIds, email : Emails \cup {None},
                   role : Roles \cup {None}]

\* line 12-35: UpdateUserDetailsResponse(updated_user=row) validates row as
\* this file's User model, whose role field is this file's Role enumeration.
\* Role declares no members, and row is a prisma model (or None), so the
\* validation fails for every row
UpdatedUser(row) == Raised("ValidationError", "updated_user")

\* line 51-69: one update of the supplied fields, or one lookup, and then the
\* response built from the row the data store answered
UpdateUser(a, ok) ==
    /\ Accept
    /\ LET r0 == NewRequest("updateUser", "PUT", <<"users", StrOf[a.userId]>>,
                            a, 0, [user |-> NoUser])
           write == a.email # None \/ a.role # None
           present == a.userId \in DOMAIN users
           clash == a.email # None /\ EmailTaken(a.email, a.userId)
           new == [i \in DOMAIN users |->
                     IF i # a.userId THEN users[i]
                     ELSE [users[i] EXCEPT
                             !.email = IF a.email # None THEN a.email ELSE @,
                             !.role = IF a.role # None THEN a.role ELSE @]]
           r1 == [r0 EXCEPT !.ndb = @ + 1,
                            !.nwrites = IF write THEN @ + 1 ELSE @,
                            !.loc.user = IF ok THEN FindUser(a.userId) ELSE NoUser]
           shown == IF write /\ present
                    THEN [id |-> a.userId, email |-> new[a.userId].email,
                          role |-> new[a.userId].role]
                    ELSE [id |-> a.userId, email |-> FindUser(a.userId).email,
                          role |-> FindUser(a.userId).role]
       IN  /\ r0.handler = "api_put_updateUser"
           /\ IF ~ok
              THEN /\ FinishNow(r1, DbError)
                   /\ UNCHANGED users
              ELSE IF ~present
              THEN /\ FinishNow(r1, UpdatedUser(None))
                   /\ UNCHANGED users
              ELSE IF write /\ clash
              THEN /\ FinishNow(r1, Raised("UniqueViolationError",
                                           "Unique constraint failed on email"))
                   /\ UNCHANGED users
              ELSE IF write
              THEN /\ users' = new
                   /\ FinishNow(r1, IF UpdatedUser(shown).raised
                                     THEN UpdatedUser(shown)
                                     ELSE Returned([message |->
                                            "User details updated successfully.",
                                            updated_user |-> shown]))
              ELSE /\ FinishNow(r1, IF UpdatedUser(shown).raised
                                     THEN UpdatedUser(shown)
                                     ELSE Returned([message |-> "No updates applied.",
                                                    updated_user |-> shown]))
                   /\ UNCHANGED users
    /\ UNCHANGED <<nextUserId, emojiRequests, emojiExplanations, inflight,
                   submitted, outbound>>

(* ------------------ fetchEmojiExplanation, fetchExplanation ------------ *)
\* fetchEmojiExplanation_service.py line 35-42: int(emoji_id), one lookup,
\* ValueError for a missing row
fetchEmojiExplanation(emoji_id, ok) ==
    IF ~IsNumeric(emoji_id)
    THEN Raised("ValueError", "invalid literal for int()")
    ELSE IF ~ok THEN DbError
    ELSE LET emoji_record == FindExplanation(IntOf(emoji_id))
         IN  IF emoji_record.id = 0
             THEN Raised("ValueError", "No explanation found for emoji with id")
             ELSE Returned([emoji |-> emoji_record.emoji,
                            explanation |-> emoji_record.explanation])

\* fetchExplanation_service.py line 25-32
fetchExplanation(id, ok) ==
    IF ~IsNumeric(id)
    THEN Raised("ValueError", "invalid literal for int()")
    ELSE IF ~ok THEN DbError
    ELSE LET emoji_explanation == FindExplanation(IntOf(id))
         IN  IF emoji_explanation.id = 0
             THEN Raised("ValueError", "No explanation found with the provided ID.")
             ELSE Returned([emoji |-> emoji_explanation.emoji,
                            explanation |-> emoji_explanation.explanation])

\* GET /emoji/explanation/<text>: the handler the router picks runs its service
GetEmojiExplanation(text, ok) ==
    /\ Accept
    /\ LET h == Dispatch("GET", <<"emoji", "explanation", text>>)
           op == IF h = "api_get_fetchEmojiExplanation"
                 THEN "fetchEmojiExplanation" ELSE "fetchExplanation"
           r0 == NewRequest(op, "GET", <<"emoji", "explanation", text>>,
                            [id |-> text], 0,
                            [record |-> IF ok /\ IsNumeric(text)
                                        THEN FindExplanation(IntOf(text))
                                        ELSE NoExplanation])
           r1 == [r0 EXCEPT !.ndb = IF IsNumeric(text) THEN @ + 1 ELSE @]
       IN  /\ h \in {"api_get_fetchEmojiExplanation", "api_get_fetchExplanation"}
           /\ FinishNow(r1, IF h = "api_get_fetchEmojiExplanation"
                            THEN fetchEmojiExplanation(text, ok)
                            ELSE fetchExplanation(text, ok))
    /\ UNCHANGED <<store, inflight, submitted, outbound>>

(* --------------------------- fetchRecentEmojis ------------------------- *)
\* find_many(order={"createdAt": "desc"}, take=n) over the rows S
RECURSIVE TakeDesc(_, _)
TakeDesc(S, n) ==
    IF S = {} \/ n = 0 THEN <<>>
    ELSE LET m == CHOOSE r \in S : \A q \in S : q.createdAt <= r.createdAt
         IN  <<m>> \o TakeDesc(S \ {m}, n - 1)

\* mutant of RecentRows: the status of a row is not looked at
RecentRows_AnyStatus == TakeDesc(emojiRequests, TakeLimit)

\* line 44-46: find_many(where status EXPLAINED, order createdAt desc, take=10)
RecentRows ==
    TakeDesc({q \in emojiRequests : q.status = "EXPLAINED"}, TakeLimit)

\* line 44-54: an empty result is an HTTPException(404)
fetchRecentEmojis(ok) ==
    IF ~ok THEN DbError
    ELSE LET recent_emojis == RecentRows
         IN  IF recent_emojis = <<>>
             THEN Raised("HTTPException", "No recent emojis found.")
             ELSE Returned([emojis |->
                     [k \in DOMAIN recent_emojis |->
                        [emoji |-> recent_emojis[k].emoji,
                         explanation |-> recent_emojis[k].explanation]]])

FetchRecentEmojis(ok) ==
    /\ Accept
    /\ LET r0 == NewRequest("fetchRecentEmojis", "GET", <<"emojis", "recent">>,
                            [none |-> None], 0, [recent_emojis |-> <<>>])
           r1 == [r0 EXCEPT !.ndb = @ + 1,
                            !.loc.recent_emojis = IF ok THEN RecentRows ELSE <<>>]
       IN  /\ r0.handler = "api_get_fetchRecentEmojis"
           /\ FinishNow(r1, fetchRecentEmojis(ok))
    /\ UNCHANGED <<store, inflight, submitted, outbound>>

(* ------------------- systemHealthCheck, getApiHealth ------------------- *)
\* systemHealthCheck_service.py line 45-62: a fixed report, no data store
SystemHealthCheck ==
    /\ Accept
    /\ LET r0 == NewRequest("systemHealthCheck", "GET", <<"system", "status">>,
                            [none |-> None], 0, [none |-> None])
       IN  /\ r0.handler = "api_get_systemHealthCheck"
           /\ FinishNow(r0, Returned([uptime |-> "72 hours",
                  health |-> [ResponseManager |-> "Operational",
                              EmojiInterpreter |-> "Operational"]]))
    /\ UNCHANGED <<store, inflight, submitted, outbound>>

\* getApiHealth_service.py line 39-50: count() >= 0 is UP, an exception DOWN
GetApiHealth(ok) ==
    /\ Accept
    /\ LET r0 == NewRequest("getApiHealth", "GET", <<"health">>,
                            [none |-> None], 0, [none |-> None])
           r1 == [r0 EXCEPT !.ndb = @ + 1]
       IN  /\ r0.handler = "api_get_getApiHealth"
           /\ FinishNow(r1, IF ~ok
                  THEN Returned([status |-> "DOWN", message |-> "data store error"])
                  ELSE IF Cardinality(emojiRequests) >= 0
                  THEN Returned([status |-> "UP",
                         message |-> "API Gateway is running and accepting requests."])
                  ELSE Returned([status |-> "UNKNOWN",
                         message |-> "Unable to determine the status."]))
    /\ UNCHANGED <<store, inflight, submitted, outbound>>

(* --------------------------- specification ----------------------------- *)
\* a data store as the service may find it at start-up: empty, or holding an
\* administrator, a user and their emoji requests
SeedUsers ==
    [i \in {1, 2} |->
        IF i = 1 THEN [email |-> "a", password |-> HashPw("p1", "s1"), role |-> "ADMIN"]
        ELSE [email |-> "b", password |-> HashPw("p2", "s1"), role |-> "USER"]]
SeedRequests ==
    { [id |-> 1, userId |-> 2, emoji |-> "e1", explanation |-> "x1",
       status |-> "EXPLAINED", createdAt |-> 1],
      [id |-> 2, userId |-> 2, emoji |-> "e2", explanation |-> "",
       status |-> "PENDING", createdAt |-> 2],
      [id |-> 3, userId |-> 1, emoji |-> "e2", explanation |-> "x2",
       status |-> "EXPLAINED", createdAt |-> 3] }
SeedExplanations == { [id |-> 1, emoji |-> "e1", explanation |-> "x1"] }

InitWith(n) ==
    /\ budget = n
    /\ \/ /\ users = <<>>
          /\ emojiRequests = {}
       \/ /\ users = SeedUsers
          /\ emojiRequests = SeedRequests
    /\ nextUserId = Cardinality(DOMAIN users) + 1
    /\ emojiExplanations \in {{}, SeedExplanations}
    /\ inflight = [s \in Slots |-> Idle]
    /\ last = [op |-> "none"]
    /\ submitted = 0
    /\ outbound = 0

Next ==
    \/ \E s \in Slots, a \in DeleteUserArgs, ok \in BOOLEAN :
           DeleteUserFindApprover(s, a, ok)
    \/ \E s \in Slots, ok \in BOOLEAN : DeleteUserFindUser(s, ok)
    \/ \E s \in Slots, ok \in BOOLEAN : DeleteUserDeleteRequests(s, ok)
    \/ \E s \in Slots, ok \in BOOLEAN : DeleteUserDeleteUser(s, ok)
    \/ \E s \in Slots, emoji \in Emojis, answer \in ServiceAnswers :
           SubmitEmojiCall(s, emoji, answer)
    \/ \E s \in Slots, ok \in BOOLEAN : SubmitEmojiLookup(s, ok)
    \/ \E s \in Slots, ok \in BOOLEAN : SubmitEmojiCreate(s, ok)
    \/ \E s \in Slots, a \in AddUserRoleArgs, caller \in Callers, ok \in BOOLEAN :
           AddUserRoleFind(s, a, caller, ok)
    \/ \E s \in Slots, ok \in BOOLEAN : AddUserRoleUpdate(s, ok)
    \/ \E s \in Slots, user_id \in UserIds, caller \in Callers, ok \in BOOLEAN :
           DeleteUserRoleFind(s, user_id, caller, ok)
    \/ \E s \in Slots, ok \in BOOLEAN : DeleteUserRoleUpdate(s, ok)
    \/ \E a \in CreateUserArgs, salt \in Salts, ok \in BOOLEAN : CreateUser(a, salt, ok)
    \/ \E username \in Emails, password \in PasswordTexts, ok \in BOOLEAN :
           AuthenticateUser(username, password, ok)
    \/ \E userId \in UserIds, ok \in BOOLEAN : GetUser(userId, ok)
    \/ \E a \in UpdateUserArgs, ok \in BOOLEAN : UpdateUser(a, ok)
    \/ \E text \in IdTexts, ok \in BOOLEAN : GetEmojiExplanation(text, ok)
    \/ \E ok \in BOOLEAN : FetchRecentEmojis(ok)
    \/ SystemHealthCheck
    \/ \E ok \in BOOLEAN : GetApiHealth(ok)

Init == InitWith(MaxRequests)

Spec == Init /\ [][Next]_vars

\* the emoji routes alone, with more requests
NextEmoji ==
    \/ \E s \in Slots, emoji \in Emojis, answer \in ServiceAnswers :
           SubmitEmojiCall(s, emoji, answer)
    \/ \E s \in Slots, ok \in BOOLEAN : SubmitEmojiLookup(s, ok)
    \/ \E s \in Slots, ok \in BOOLEAN : SubmitEmojiCreate(s, ok)
    \/ \E text \in IdTexts, ok \in BOOLEAN : GetEmojiExplanation(text, ok)
    \/ \E ok \in BOOLEAN : FetchRecentEmojis(ok)

SpecEmoji == InitWith(MaxEmojiRequests) /\ [][NextEmoji]_vars

\* stores for the recent-emojis route: n rows of the seeded users, of which
\* every k-th is still PENDING (none for k = 0), created in the order of their
\* ids, in the opposite order, or in pairs at the same instant
PendingEvery == {0, 1, 3, 7}
CreationOrders == {"asc", "desc", "pairs"}
RecentStore(n, k, order) ==
    { [id |-> i,
       userId |-> IF i % 2 = 0 THEN 2 ELSE 1,
       emoji |-> IF i % 3 = 0 THEN "e1" ELSE "e2",
       explanation |-> IF k # 0 /\ i % k = 0 THEN ""
                       ELSE IF i % 2 = 0 THEN "x1" ELSE "x2",
       status |-> IF k # 0 /\ i % k = 0 THEN "PENDING" ELSE "EXPLAINED",
       createdAt |-> CASE order = "asc" -> i
                       [] order = "desc" -> n + 1 - i
                       [] OTHER -> (i + 1) \div 2] : i \in 1..n }

InitRecent ==
    /\ budget = MaxRequests
    /\ users = SeedUsers
    /\ nextUserId = Cardinality(DOMAIN users) + 1
    /\ \E n \in 0..MaxRecentRows, k \in PendingEvery, order \in CreationOrders :
           emojiRequests = RecentStore(n, k, order)
    /\ emojiExplanations = {}
    /\ inflight = [s \in Slots |-> Idle]
    /\ last = [op |-> "none"]
    /\ submitted = 0
    /\ outbound = 0

NextRecent == \E ok \in BOOLEAN : FetchRecentEmojis(ok)

SpecRecent == InitRecent /\ [][NextRecent]_vars

(* ============================ deleteUser =============================== *)
\* every request the service knows of: the one that ended last and those
\* suspended at an await
Ended1(op) == last.op = op
Suspended(op) == {s \in Slots : inflight[s].op = op}

ErrApprover == "Approver is not authorized or does not exist."
ErrAdmin == "Cannot delete an admin user."

\* C1, as claimed: deleteUser never removes a User row whose role is ADMIN,
\* and a deleteUser request that ends while its target's role is ADMIN ends with
\* status 'error', message 'Cannot delete an admin user.', having changed neither
\* table.
C1_Original ==
    [][ /\ \A i \in DOMAIN users :
              users[i].role = "ADMIN" => i \in DOMAIN users'
        /\ (/\ last' # last
            /\ last'.op = "deleteUser"
            /\ ~last'.raised
            /\ FindUser(last'.args.userId).role = "ADMIN")
           => /\ last'.body.status = "error"
              /\ last'.body.message = ErrAdmin
              /\ last'.nwrites = 0 ]_vars

\* C1, first half alone: no step removes a User row whose role is ADMIN.  It
\* fails when the role is raised to ADMIN between the lookup of the target and
\* the delete.
C1_NeverRemovesAdminRow ==
    [][\A i \in DOMAIN users : users[i].role = "ADMIN" => i \in DOMAIN users']_vars

\* C1, amended: a deleteUser request issues a delete only after its lookup of
\* the target returned a row whose role is not ADMIN; when that lookup returns
\* an ADMIN the request ends with status 'error', 'Cannot delete an admin user.'
\* and no write; the target is looked up only after the approver lookup
\* returned an ADMIN, so with any other approver the request ends with the
\* approver's error and no write, whatever the target's role.
C1_Amended ==
    /\ \A s \in Suspended("deleteUser") :
          /\ inflight[s].pc \in {"delete_requests", "delete_user"}
                => inflight[s].loc.user.role = "USER"
          /\ inflight[s].nwrites > 0 => inflight[s].loc.user.role = "USER"
    /\ (Ended1("deleteUser") /\ ~last.raised) =>
          /\ last.nwrites > 0 => last.loc.user.role = "USER"
          /\ last.loc.user.role = "ADMIN" =>
                /\ last.body.status = "error"
                /\ last.body.message = ErrAdmin
                /\ last.nwrites = 0
                /\ last.loc.approver.role = "ADMIN"
          /\ last.loc.approver.role # "ADMIN" =>
                /\ last.body.status = "error"
                /\ last.body.message = ErrApprover
                /\ last.loc.user = NoUser
                /\ last.nwrites = 0

\* an ADMIN approver asked to delete an ADMIN and was refused
C1_Witness ==
    /\ Ended1("deleteUser")
    /\ ~last.raised
    /\ last.loc.approver.role = "ADMIN"
    /\ last.loc.user.role = "ADMIN"
    /\ last.body.message = ErrAdmin
    /\ last.args.userId \in DOMAIN users

\* C2: deleteUser deletes only if the approver lookup returned an existing User
\* whose role is ADMIN; when that lookup returns no row or a row of role USER
\* the request ends with status 'error', 'Approver is not authorized or does
\* not exist.', without a write and without looking the target up.
C2_ApproverMustBeAdmin ==
    /\ \A s \in Suspended("deleteUser") :
          /\ inflight[s].loc.approver.role = "ADMIN"
          /\ inflight[s].loc.approver.id = inflight[s].args.approverId
    /\ Ended1("deleteUser") =>
          /\ last.nwrites > 0 =>
                /\ last.loc.approver.role = "ADMIN"
                /\ last.loc.approver.id = last.args.approverId
          /\ (~last.raised /\ last.loc.approver.role # "ADMIN") =>
                /\ last.body.status = "error"
                /\ last.body.message = ErrApprover
                /\ last.nwrites = 0
                /\ last.ndb = 1

\* a USER approver asked to delete an existing user and was refused, and so
\* was a missing approver
C2_Witness ==
    /\ Ended1("deleteUser")
    /\ ~last.raised
    /\ last.loc.approver.role \in {"USER", "NONE"}
    /\ last.args.userId \in DOMAIN users
    /\ last.body.message = ErrApprover

(* ============================ error translation ======================== *)
\* C3, as claimed: whenever the service function of a route fails with an
\* exception, the response has status 500 and an 'error' body, and no
\* exception leaves the handler.
C3_Original ==
    (last.op # "none" /\ last.raised) =>
        /\ last.status = StatusError
        /\ ~last.escaped
        /\ "error" \in DOMAIN last.body

(* ============================ submitEmoji ============================== *)
\* C4: every submitEmoji request makes exactly one outbound call, made before
\* the lookup of the stored explanation and whether or not one is stored; so
\* the calls sent are as many as the requests received.
C4_OneCallPerSubmit ==
    /\ outbound = submitted
    /\ \A s \in Suspended("submitEmoji") :
          /\ inflight[s].nhttp = 1
          /\ inflight[s].pc = "lookup" => inflight[s].ndb = 0
    /\ Ended1("submitEmoji") => last.nhttp = 1

\* two requests for one emoji are in flight, the emoji has a stored
\* explanation, and two calls went out
C4_Witness ==
    /\ Suspended("submitEmoji") = Slots
    /\ \A s, t \in Slots : inflight[s].args.emoji = inflight[t].args.emoji
    /\ \E s \in Slots : FindExplanationByEmoji(inflight[s].args.emoji).id # 0
    /\ outbound >= 2
    /\ outbound = submitted

\* C5: a submitEmoji request whose call failed (HTTP error, missing or empty
\* 'explanation') has made that one call and no other, ends with the exception,
\* and has issued no data-store operation, so no row is created or modified.
C5_NoRetry ==
    /\ \A s \in Suspended("submitEmoji") : inflight[s].loc.answer = "ok"
    /\ (Ended1("submitEmoji") /\ last.loc.answer # "ok") =>
          /\ last.nhttp = 1
          /\ last.raised
          /\ last.exc \in {"HTTPStatusError", "ValueError"}
          /\ last.status = StatusError
          /\ last.ndb = 0
          /\ last.nwrites = 0

\* the service answered without an explanation and the request failed
C5_Witness ==
    /\ Ended1("submitEmoji")
    /\ last.loc.answer \in {"missing", "empty"}
    /\ last.raised
    /\ outbound = 1

(* ============================ operations per request =================== *)
\* what each known request has issued so far
Counters ==
    {[op |-> inflight[s].op, ndb |-> inflight[s].ndb, nhttp |-> inflight[s].nhttp]
        : s \in {t \in Slots : inflight[t] # Idle}}
    \cup (IF last.op = "none" THEN {}
          ELSE {[op |-> last.op, ndb |-> last.ndb, nhttp |-> last.nhttp]})

\* C6, as claimed: a request issues either at most 3 data-store operations and
\* no outbound call, or exactly one outbound call; and never more than 3
\* data-store operations.
C6_Original ==
    \A c \in Counters :
        /\ (c.ndb <= 3 /\ c.nhttp = 0) \/ c.nhttp = 1
        /\ c.ndb <= 3

\* C6, amended: the same with 4 in the place of 3.
C6_Amended ==
    \A c \in Counters :
        /\ (c.ndb <= 4 /\ c.nhttp = 0) \/ c.nhttp = 1
        /\ c.ndb <= 4

\* deleteUser succeeded after two lookups and two deletes
C6_Witness ==
    /\ Ended1("deleteUser")
    /\ ~last.raised
    /\ last.body.status = "success"
    /\ last.ndb = 4

(* ============================ routing ================================== *)
\* C7, as claimed: a request matches at most one registered route, which is
\* the handler that runs.
C7_Original ==
    last.op # "none" =>
        /\ Cardinality(Matching(last.method, last.path)) = 1
        /\ \A i \in Matching(last.method, last.path) : Routes[i].handler = last.handler

(* ============================ authentication =========================== *)
\* bcrypt.checkpw(password, stored): stored is the hash of password under
\* some salt
Verifies(password, stored) ==
    /\ Len(password) = 1
    /\ \E salt \in Salts : HashPw(password[1], salt) = stored

\* C8, as claimed: for a user that exists, authenticateUser with the password
\* the user was created with returns a non-empty token and error None, and
\* with any other password an empty token and 'Invalid username or password'.
C8_Original ==
    (Ended1("authenticateUser") /\ ~last.raised /\ last.loc.user.id # 0) =>
        IF Verifies(last.args.password, last.loc.user.password)
        THEN last.body.jwt # <<>> /\ last.body.error = None
        ELSE last.body.jwt = <<>>
             /\ last.body.error = "Invalid username or password"

(* ============================ roles ==================================== *)
\* C9, as claimed: addUserRole and deleteUserRole change a role only for a
\* request sent by an administrator.
C9_Original ==
    ((Ended1("addUserRole") \/ Ended1("deleteUserRole"))
        /\ ~last.raised /\ last.body.success)
    => last.callerRole = "ADMIN"

(* ============================ fetchEmojiExplanation ==================== *)
\* C10, as claimed: fetchEmojiExplanation returns the stored emoji and
\* explanation of the row with that id, and a None explanation when there is
\* no such row; it does not fail and writes nothing.
C10_Original ==
    (Ended1("fetchEmojiExplanation") /\ last.exc # "PrismaError"
        /\ IsNumeric(last.args.id))
    => /\ ~last.raised
       /\ last.nwrites = 0
       /\ IF last.loc.record.id # 0
          THEN /\ last.body.emoji = last.loc.record.emoji
               /\ last.body.explanation = last.loc.record.explanation
          ELSE last.body.explanation = None

(* ============================ createUser =============================== *)
\* C11, as claimed: createUser, unless the data store refuses the row, writes
\* exactly one User row with email = username, role = role and the hash (never
\* the plain text) as its password, and returns that row's id, username and
\* role and nothing else.
C11_Original ==
    (Ended1("createUser")
        /\ last.exc \notin {"PrismaError", "UniqueViolationError"})
    => /\ ~last.raised
       /\ last.nwrites = 1
       /\ DOMAIN last.body = {"id", "username", "role"}
       /\ last.body.username = last.args.username
       /\ last.body.role = last.args.role
       /\ last.body.id \in DOMAIN users
       /\ users[last.body.id] = [email |-> last.args.username,
                                 password |-> last.loc.hashed_password,
                                 role |-> last.args.role]
       /\ last.loc.hashed_password # last.args.password
       /\ Verifies(last.args.password, last.loc.hashed_password)

(* ============================ deleteUser, atomicity ==================== *)
\* C12, as claimed: once a deleteUser request has ended, however it ended,
\* either the target User row and all its EmojiRequest rows are gone or the
\* request removed nothing; the request never leaves the user's EmojiRequest
\* rows removed with the User row still there.
C12_Original ==
    Ended1("deleteUser") =>
        LET userId == last.args.userId
        IN  /\ last.loc.deleted > 0 => userId \notin DOMAIN users
            /\ userId \notin DOMAIN users =>
                   \A q \in emojiRequests : q.userId # userId

(* ============================ deleteUserRole =========================== *)
\* the step ends a request of kind op at its lookup, the first await
EndsAtLookup(op) ==
    /\ budget' # budget
    /\ inflight' = inflight
    /\ last'.op = op
\* the step ends the request of slot s, of kind op, at its update
EndsAtUpdate(op, s) ==
    /\ inflight[s].op = op
    /\ inflight'[s] = Idle
\* the step leaves every row but the User row id as it was
OthersKept(id) ==
    /\ DOMAIN users' = DOMAIN users
    /\ \A i \in DOMAIN users \ {id} : users'[i] = users[i]
    /\ UNCHANGED <<nextUserId, emojiRequests, emojiExplanations>>

ErrNotFound == "User not found."
ErrUpdate == "Failed to update user role"

C13_Step ==
    /\ EndsAtLookup("deleteUserRole") =>
          /\ ~last'.raised
          /\ ~last'.body.success
          /\ UNCHANGED store
          /\ last'.body.message \in {ErrNotFound, ErrUpdate}
          /\ last'.body.message = ErrNotFound =>
                last'.args.user_id \notin DOMAIN users
    /\ \A s \in Slots : EndsAtUpdate("deleteUserRole", s) =>
          LET id == inflight[s].args.user_id
          IN  /\ last'.op = "deleteUserRole"
              /\ ~last'.raised
              /\ OthersKept(id)
              /\ last'.body.success => last'.loc.user.id = id
              /\ id \in DOMAIN users =>
                    IF last'.body.success
                    THEN users'[id] = [users[id] EXCEPT !.role = "USER"]
                    ELSE /\ users'[id] = users[id]
                         /\ last'.body.message = ErrUpdate

\* C13: deleteUserRole never raises; for a user its lookup finds it sets the
\* role of that row to USER whatever it was, changes nothing else and
\* answers success = True; for a missing user it answers success = False,
\* 'User not found.', with the store unchanged; an exception of the data
\* store is answered as success = False, 'Failed to update user role'.
C13_DeleteUserRole == [][C13_Step]_vars

\* an administrator's role was set to USER
C13_Witness ==
    /\ Ended1("deleteUserRole")
    /\ ~last.raised
    /\ last.body.success
    /\ last.loc.user.role = "ADMIN"
    /\ last.args.user_id \in DOMAIN users
    /\ users[last.args.user_id].role = "USER"
\* a missing user was refused
C13_WitnessMissing ==
    /\ Ended1("deleteUserRole")
    /\ last.body.message = ErrNotFound
    /\ last.args.user_id \notin DOMAIN users

(* ============================ addUserRole ============================== *)
ErrNoUser == "No user found with ID"

C14_Step ==
    /\ EndsAtLookup("addUserRole") =>
          /\ UNCHANGED store
          /\ last'.args.user_id \in DOMAIN users => last'.raised
          /\ ~last'.raised =>
                /\ ~last'.body.success
                /\ last'.body.message = ErrNoUser
    /\ \A s \in Slots : EndsAtUpdate("addUserRole", s) =>
          LET id == inflight[s].args.user_id
              new_role == inflight[s].args.new_role
          IN  /\ last'.op = "addUserRole"
              /\ ~last'.raised
              /\ OthersKept(id)
              /\ last'.body.success => last'.loc.user.id = id
              /\ id \in DOMAIN users =>
                    IF last'.body.success
                    THEN users'[id] = [users[id] EXCEPT !.role = new_role]
                    ELSE /\ users'[id] = users[id]
                         /\ last'.body.message = ErrUpdate

\* C14: addUserRole answers success = False, 'No user found with ID ...',
\* and leaves the store as it is when its lookup finds no user; for a user
\* it finds it sets the role of that row to new_role, changes nothing else
\* and answers success = True; a failure of the update is answered as
\* success = False and not raised.
C14_AddUserRole == [][C14_Step]_vars

\* a role was changed to the one asked for
C14_Witness ==
    /\ Ended1("addUserRole")
    /\ ~last.raised
    /\ last.body.success
    /\ last.loc.user.role # last.args.new_role
    /\ last.args.user_id \in DOMAIN users
    /\ users[last.args.user_id].role = last.args.new_role
\* the update failed and the failure was answered
C14_WitnessFailure ==
    /\ Ended1("addUserRole")
    /\ ~last.raised
    /\ last.body.message = ErrUpdate

(* ============================ updateUser =============================== *)
\* the step is one whole updateUser request
IsUpdateUser ==
    /\ budget' # budget
    /\ last'.op = "updateUser"

C15_Step ==
    IsUpdateUser =>
        LET a == last'.args
            existing == FindUser(a.userId)
        IN  /\ OthersKept(a.userId)
            /\ (existing.id # 0
                    /\ last'.exc \notin {"PrismaError", "UniqueViolationError"}) =>
                  /\ users'[a.userId] =
                        [users[a.userId] EXCEPT
                            !.email = IF a.email # None THEN a.email ELSE @,
                            !.role = IF a.role # None THEN a.role ELSE @]
                  /\ (a.email = None /\ a.role = None) =>
                        /\ last'.nwrites = 0
                        /\ ~last'.raised
                        /\ last'.body.message = "No updates applied."
                        /\ last'.body.updated_user =
                              [id |-> existing.id, email |-> existing.email,
                               role |-> existing.role]

\* C15, as claimed: updateUser writes the supplied (non-None) fields of the
\* row userId and nothing else, never a password and never another row; with
\* email and role both None it writes nothing and returns 'No updates
\* applied.' together with the existing user.
C15_Original == [][C15_Step]_vars

(* ============================ fetchRecentEmojis ======================== *)
\* the step is one whole fetchRecentEmojis request
IsFetchRecentEmojis ==
    /\ budget' # budget
    /\ last'.op = "fetchRecentEmojis"

Min(a, b) == IF a <= b THEN a ELSE b

C16_Step ==
    IsFetchRecentEmojis =>
        LET explained == {q \in emojiRequests : q.status = "EXPLAINED"}
            rows == last'.loc.recent_emojis
            returned == {rows[k] : k \in DOMAIN rows}
        IN  /\ UNCHANGED store
            /\ last'.nwrites = 0
            /\ last'.exc # "PrismaError" =>
                  IF explained = {}
                  THEN /\ last'.raised
                       /\ last'.exc = "HTTPException"
                       /\ fetchRecentEmojis(TRUE).value.error
                             = "No recent emojis found."
                  ELSE /\ ~last'.raised
                       /\ Len(last'.body.emojis) <= TakeLimit
                       /\ Len(last'.body.emojis) = Len(rows)
                       /\ Len(rows) = Min(TakeLimit, Cardinality(explained))
                       /\ Cardinality(returned) = Len(rows)
                       /\ returned \subseteq explained
                       /\ \A k \in DOMAIN rows :
                             last'.body.emojis[k] =
                                [emoji |-> rows[k].emoji,
                                 explanation |-> rows[k].explanation]
                       /\ \A k \in 1..(Len(rows) - 1) :
                             rows[k].createdAt >= rows[k + 1].createdAt
                       /\ \A q \in explained \ returned : \A r \in returned :
                             q.createdAt <= r.createdAt

\* C16: fetchRecentEmojis returns at most 10 entries, each the emoji and
\* explanation of a distinct EXPLAINED EmojiRequest row, newest first, and no
\* EXPLAINED row left out is newer than one returned; with no EXPLAINED row
\* it fails with 'No recent emojis found.'; it writes nothing.
C16_FetchRecentEmojis == [][C16_Step]_vars

\* ten rows were returned out of more, with a newer PENDING row passed over
C16_Witness ==
    /\ Ended1("fetchRecentEmojis")
    /\ ~last.raised
    /\ Len(last.body.emojis) = TakeLimit
    /\ Cardinality({q \in emojiRequests : q.status = "EXPLAINED"}) > TakeLimit
    /\ \E q \in emojiRequests :
          /\ q.status = "PENDING"
          /\ q.createdAt > last.loc.recent_emojis[TakeLimit].createdAt
\* no EXPLAINED row: the request failed
C16_WitnessEmpty ==
    /\ Ended1("fetchRecentEmojis")
    /\ last.exc = "HTTPException"
    /\ emojiRequests # {}

====
